---- MODULE Spec2Model ----
(***************************************************************************)
(* Workspace state and orchestrator of the Vibe Code editor shell          *)
(* (src/App.tsx) together with the scaffold response parsing of the AI     *)
(* gateway (src/services/geminiService.ts).                                *)
(*                                                                         *)
(* Strings are sequences of tokens.  The separators "." and "/" are always *)
(* tokens of their own, so split('.') and split('/') are computed on the   *)
(* token sequence.  The JavaScript values null and undefined are the two   *)
(* one-token sequences Null and Undefined, which no string equals.         *)
(***************************************************************************)
EXTENDS Integers, Sequences, FiniteSets, TLC

VARIABLES entries, activeId, chatHistory, isAiLoading, chat,
          isScaffoldModalOpen, pending, created, now, alert, console, mounted, last

vars == <<entries, activeId, chatHistory, isAiLoading, chat,
          isScaffoldModalOpen, pending, created, now, alert, console, mounted, last>>

(* ------------------------------ bounds -------------------------------- *)
\* Spec: entries, calls in flight, transcript length, clock ticks.
MaxEntries == 4
MaxPending == 1
MaxChat == 3
MaxClock == 1
\* The scenario specifications, which run fewer intents further.
MaxEntriesDeep == 5
MaxPendingDeep == 2
MaxChatDeep == 5

(* --------------------------- JavaScript values ------------------------ *)
Null == <<"#null">>
Undefined == <<"#undefined">>
EmptyString == <<>>

\* JavaScript truthiness of a string | null | undefined value.
Truthy(v) == v # Null /\ v # Undefined /\ v # EmptyString

\* `${v}` inside a template literal.
TemplateStr(v) ==
  IF v = Null THEN <<"null">>
  ELSE IF v = Undefined THEN <<"undefined">>
  ELSE v

DigitChars == <<"0", "1", "2", "3", "4", "5", "6", "7", "8", "9">>

\* `${n}` for a non-negative integer: its decimal digits.
RECURSIVE NumberStr(_)
NumberStr(n) ==
  IF n < 10 THEN <<DigitChars[n + 1]>>
  ELSE NumberStr(n \div 10) \o <<DigitChars[(n % 10) + 1]>>

\* s.split(sep).pop(): what follows the last sep, the whole of s without one.
SplitPop(s, sep) ==
  LET at == {i \in 1..Len(s) : s[i] = sep}
  IN IF at = {} THEN s
     ELSE LET k == CHOOSE i \in at : \A j \in at : j <= i
          IN SubSeq(s, k + 1, Len(s))

(* ------------------------------ types.ts ------------------------------ *)
VibeEntry(id, name, content, language, type) ==
  [id |-> id, name |-> name, content |-> content, language |-> language, type |-> type]

ChatMessage(role, content) == [role |-> role, content |-> content]

ANALYZE == "Analyze"
REFACTOR == "Refactor (Thinking Mode)"
AIMode == {ANALYZE, REFACTOR}

(* --------------------------- App.tsx: state --------------------------- *)
WelcomeContent == <<"// Welcome to Vibe Code! ... greet('Developer');">>
StylesContent == <<"/* Give your web app some vibe! */ ...">>

initialEntries ==
  << VibeEntry(<<"welcome", ".", "js">>, <<"welcome", ".", "js">>, WelcomeContent,
               <<"javascript">>, "file"),
     VibeEntry(<<"styles", ".", "css">>, <<"styles", ".", "css">>, StylesContent,
               <<"css">>, "file"),
     VibeEntry(<<"assets">>, <<"assets">>, EmptyString, EmptyString, "folder") >>

Greeting ==
  ChatMessage("model",
    <<"Hey! I'm Vibe Bot. Ask me anything about your code or general questions.">>)

ChatFallback ==
  ChatMessage("model",
    <<"Sorry, I ran into an issue. Please check the console for details.">>)

\* The Chat | null state: 0 is null, n > 0 the n-th session ai.chats.create made.
NoChat == 0

\* A thrown error: its constructor's name and its message.
Error(name, message) == [name |-> name, message |-> message]

\* What alert() showed in the last step; NoAlert when the step showed nothing.
\* console holds the errors console.error printed in the last step, in order.
NoAlert == <<>>
FileExistsAlert == <<"A file with that name already exists.">>
FolderExistsAlert == <<"A folder with that path already exists.">>
AiActionAlert(mode) ==
  <<"An error occurred during AI ", mode, ". Please check the console.">>
ScaffoldAlert == <<"An error occurred during scaffolding. Please check the console.">>

\* A gateway call in flight: the promise and what its handler closed over.
\* len0 and solo are history fields of a chat call: the transcript length when
\* it was issued, and whether no other chat call has been in flight with it.
Call(kind, mode, aid, existingChat, inst, message, len0, solo) ==
  [kind |-> kind, mode |-> mode, activeId |-> aid, chat |-> existingChat,
   inst |-> inst, message |-> message, len0 |-> len0, solo |-> solo]

NoCall == Call("none", "none", Null, NoChat, NoChat, EmptyString, 0, FALSE)

\* History of the last step: the handler that ran, how it ended, the gateway
\* call it settled, the entries it was given (an upload, a scaffold's result)
\* and the response text a scaffold call received (Null when none).
Last(op, out, call, ret, text) ==
  [op |-> op, out |-> out, call |-> call, ret |-> ret, text |-> text]

RemoveAt(s, i) == SubSeq(s, 1, i - 1) \o SubSeq(s, i + 1, Len(s))

\* The state after construction, from the initial values of entries and activeId.
InitWith(es, aid) ==
  /\ entries = es
  /\ activeId = aid
  /\ chatHistory = <<>>
  /\ isAiLoading = FALSE
  /\ chat = NoChat
  /\ isScaffoldModalOpen = FALSE
  /\ pending = <<>>
  /\ created = 0
  /\ now = 0
  /\ alert = NoAlert
  /\ console = <<>>
  /\ mounted = FALSE
  /\ last = Last("init", "ok", NoCall, <<>>, Null)

Init == InitWith(initialEntries, <<"welcome", ".", "js">>)

\* The workspaces that the testable properties of the specification start from:
\* no entries and nothing selected, and the initial entries with none selected.
InitEmpty == InitWith(<<>>, Null)
InitUnselected == InitWith(initialEntries, Null)

\* useEffect(..., []): runs once after the first render, before any intent.
Mount ==
  /\ ~mounted
  /\ mounted' = TRUE
  /\ chatHistory' = <<Greeting>>
  /\ alert' = NoAlert
  /\ console' = <<>>
  /\ last' = Last("mount", "ok", NoCall, <<>>, Null)
  /\ UNCHANGED <<entries, activeId, isAiLoading, chat, isScaffoldModalOpen,
                 pending, created, now>>

\* Date.now() advances.
Tick ==
  /\ mounted
  /\ now' = now + 1
  /\ alert' = NoAlert
  /\ console' = <<>>
  /\ last' = Last("tick", "ok", NoCall, <<>>, Null)
  /\ UNCHANGED <<entries, activeId, chatHistory, isAiLoading, chat,
                 isScaffoldModalOpen, pending, created, mounted>>

(* ---------------------- App.tsx: synchronous intents ------------------ *)
handleSelect(id) ==
  /\ mounted
  /\ activeId' = id
  /\ alert' = NoAlert
  /\ console' = <<>>
  /\ last' = Last("select", "ok", NoCall, <<>>, Null)
  /\ UNCHANGED <<entries, chatHistory, isAiLoading, chat, isScaffoldModalOpen,
                 pending, created, now, mounted>>

\* As ContentChanged, but without the test of the id.
ContentChangedEverywhere(es, aid, newContent) ==
  [i \in 1..Len(es) |-> [es[i] EXCEPT !.content = newContent]]

\* entries.map(e => e.id === activeId ? { ...e, content: newContent } : e)
ContentChanged(es, aid, newContent) ==
  [i \in 1..Len(es) |->
     IF es[i].id = aid THEN [es[i] EXCEPT !.content = newContent] ELSE es[i]]

handleContentChange(newContent) ==
  /\ mounted
  /\ IF Truthy(activeId)
       THEN /\ entries' = ContentChanged(entries, activeId, newContent)
            /\ last' = Last("edit", "ok", NoCall, <<>>, Null)
       ELSE /\ entries' = entries
            /\ last' = Last("edit", "noop", NoCall, <<>>, Null)
  /\ alert' = NoAlert
  /\ console' = <<>>
  /\ UNCHANGED <<activeId, chatHistory, isAiLoading, chat, isScaffoldModalOpen,
                 pending, created, now, mounted>>

\* fileName.split('.').pop() || 'text'
FileLanguage(fileName) ==
  IF Truthy(SplitPop(fileName, ".")) THEN SplitPop(fileName, ".") ELSE <<"text">>

\* entries.some(e => e.name === fileName)
NewFileExists(es, fileName) == \E i \in 1..Len(es) : es[i].name = fileName

handleNewFile(fileName) ==
  /\ mounted
  /\ IF Truthy(fileName) /\ ~NewFileExists(entries, fileName)
       THEN /\ entries' = Append(entries,
                 VibeEntry(fileName, fileName, <<"// New file: ">> \o fileName,
                           FileLanguage(fileName), "file"))
            /\ activeId' = fileName
            /\ alert' = NoAlert
            /\ last' = Last("newFile", "ok", NoCall, <<>>, Null)
       ELSE IF Truthy(fileName)
         THEN /\ alert' = FileExistsAlert
              /\ last' = Last("newFile", "exists", NoCall, <<>>, Null)
              /\ UNCHANGED <<entries, activeId>>
         ELSE /\ alert' = NoAlert
              /\ last' = Last("newFile", "cancelled", NoCall, <<>>, Null)
              /\ UNCHANGED <<entries, activeId>>
  /\ console' = <<>>
  /\ UNCHANGED <<chatHistory, isAiLoading, chat, isScaffoldModalOpen,
                 pending, created, now, mounted>>

\* folderPath.split('/').pop() || folderPath
FolderName(folderPath) ==
  IF Truthy(SplitPop(folderPath, "/")) THEN SplitPop(folderPath, "/") ELSE folderPath

\* entries.some(e => e.id === folderPath)
NewFolderExists(es, folderPath) == \E i \in 1..Len(es) : es[i].id = folderPath

handleNewFolder(folderPath) ==
  /\ mounted
  /\ IF Truthy(folderPath) /\ ~NewFolderExists(entries, folderPath)
       THEN /\ entries' = Append(entries,
                 VibeEntry(folderPath, FolderName(folderPath), EmptyString,
                           EmptyString, "folder"))
            /\ activeId' = folderPath
            /\ alert' = NoAlert
            /\ last' = Last("newFolder", "ok", NoCall, <<>>, Null)
       ELSE IF Truthy(folderPath)
         THEN /\ alert' = FolderExistsAlert
              /\ last' = Last("newFolder", "exists", NoCall, <<>>, Null)
              /\ UNCHANGED <<entries, activeId>>
         ELSE /\ alert' = NoAlert
              /\ last' = Last("newFolder", "cancelled", NoCall, <<>>, Null)
              /\ UNCHANGED <<entries, activeId>>
  /\ console' = <<>>
  /\ UNCHANGED <<chatHistory, isAiLoading, chat, isScaffoldModalOpen,
                 pending, created, now, mounted>>

\* entries.some(e => e.name === file.name)
UploadExists(es, file) == \E i \in 1..Len(es) : es[i].name = file.name

\* entries.map(e => e.name === file.name ? file : e)
Overwritten(es, file) ==
  [i \in 1..Len(es) |-> IF es[i].name = file.name THEN file ELSE es[i]]

\* As handleFileUpload, but activating by name: setActiveId(file.name).
handleFileUploadByName(file, confirmed) ==
  /\ mounted
  /\ IF ~UploadExists(entries, file)
       THEN /\ entries' = Append(entries, file)
            /\ activeId' = file.name
            /\ last' = Last("upload", "appended", NoCall, <<file>>, Null)
       ELSE IF confirmed
         THEN /\ entries' = Overwritten(entries, file)
              /\ activeId' = file.name
              /\ last' = Last("upload", "overwritten", NoCall, <<file>>, Null)
         ELSE /\ last' = Last("upload", "declined", NoCall, <<file>>, Null)
              /\ UNCHANGED <<entries, activeId>>
  /\ alert' = NoAlert
  /\ console' = <<>>
  /\ UNCHANGED <<chatHistory, isAiLoading, chat, isScaffoldModalOpen,
                 pending, created, now, mounted>>

\* confirmed is the answer window.confirm would give.
handleFileUpload(file, confirmed) ==
  /\ mounted
  /\ IF ~UploadExists(entries, file)
       THEN /\ entries' = Append(entries, file)
            /\ activeId' = file.id
            /\ last' = Last("upload", "appended", NoCall, <<file>>, Null)
       ELSE IF confirmed
         THEN /\ entries' = Overwritten(entries, file)
              /\ activeId' = file.id
              /\ last' = Last("upload", "overwritten", NoCall, <<file>>, Null)
         ELSE /\ last' = Last("upload", "declined", NoCall, <<file>>, Null)
              /\ UNCHANGED <<entries, activeId>>
  /\ alert' = NoAlert
  /\ console' = <<>>
  /\ UNCHANGED <<chatHistory, isAiLoading, chat, isScaffoldModalOpen,
                 pending, created, now, mounted>>

\* What the editor reads of a null activeEntry: it has no field.
NullEntry == VibeEntry(Null, Null, Null, Null, "null")

\* As activeEntry, but finding by name: entries.find(e => e.name === activeId).
activeEntryByName(es, aid) ==
  LET at == {i \in 1..Len(es) : es[i].name = aid}
  IN IF at = {} THEN NullEntry
     ELSE es[CHOOSE i \in at : \A j \in at : i <= j]

\* entries.find(e => e.id === activeId) || null
activeEntry(es, aid) ==
  LET at == {i \in 1..Len(es) : es[i].id = aid}
  IN IF at = {} THEN NullEntry
     ELSE es[CHOOSE i \in at : \A j \in at : i <= j]

(* --------------------- geminiService.ts: the gateway ------------------ *)
\* The text of a scaffold response, as tokens: "[", "]" and "," are the JSON
\* array punctuation, "prose" is text that is no JSON, and "objA", "objB" each
\* stand for the text of one complete JSON object.
ObjA == VibeEntry(<<"src">>, <<"src">>, EmptyString, EmptyString, "folder")
ObjB == VibeEntry(<<"src", "/", "a", ".", "js">>, <<"a", ".", "js">>, <<"// a">>,
                  <<"js">>, "file")
ObjectOf(tok) == IF tok = "objA" THEN ObjA ELSE ObjB
ObjectTokens == {"objA", "objB"}

\* What the handlers read of a parsed element that is no object (an array):
\* every property of it is undefined.
NonObject == VibeEntry(Undefined, Undefined, Undefined, Undefined, "undefined")

\* As JsonMatch, but lazy (/\[[\s\S]*?\]/): from the first "[" to the first "]" after it.
JsonMatchLazy(text) ==
  LET opens == {i \in 1..Len(text) : text[i] = "["}
  IN IF opens = {} THEN Null
     ELSE LET first == CHOOSE i \in opens : \A j \in opens : i <= j
              closes == {i \in (first + 1)..Len(text) : text[i] = "]"}
          IN IF closes = {} THEN Null
             ELSE LET nxt == CHOOSE i \in closes : \A j \in closes : i <= j
                  IN SubSeq(text, first, nxt)

\* text.match(/\[[\s\S]*\]/): from the first "[" to the last "]" after it;
\* Null when there is none.
JsonMatch(text) ==
  LET opens == {i \in 1..Len(text) : text[i] = "["}
  IN IF opens = {} THEN Null
     ELSE LET first == CHOOSE i \in opens : \A j \in opens : i <= j
              closes == {i \in (first + 1)..Len(text) : text[i] = "]"}
          IN IF closes = {} THEN Null
             ELSE LET lst == CHOOSE i \in closes : \A j \in closes : j <= i
                  IN SubSeq(text, first, lst)

ParseFail == [ok |-> FALSE, nxt |-> 0, val |-> NonObject, items |-> <<>>]

\* JSON.parse, by recursive descent: a value at position i of s is an object
\* or an array of values.  nxt is the position after what was parsed.
RECURSIVE ParseValue(_, _), ParseItems(_, _, _)
ParseArray(s, i) ==
  IF i + 1 <= Len(s) /\ s[i + 1] = "]"
    THEN [ok |-> TRUE, nxt |-> i + 2, val |-> NonObject, items |-> <<>>]
    ELSE ParseItems(s, i + 1, <<>>)

ParseValue(s, i) ==
  IF i > Len(s) THEN ParseFail
  ELSE IF s[i] \in ObjectTokens
    THEN [ok |-> TRUE, nxt |-> i + 1, val |-> ObjectOf(s[i]), items |-> <<>>]
  ELSE IF s[i] = "["
    THEN LET r == ParseArray(s, i)
         IN [ok |-> r.ok, nxt |-> r.nxt, val |-> NonObject, items |-> <<>>]
  ELSE ParseFail

ParseItems(s, i, acc) ==
  LET v == ParseValue(s, i)
  IN IF ~v.ok THEN ParseFail
     ELSE IF v.nxt <= Len(s) /\ s[v.nxt] = ","
       THEN ParseItems(s, v.nxt + 1, Append(acc, v.val))
     ELSE IF v.nxt <= Len(s) /\ s[v.nxt] = "]"
       THEN [ok |-> TRUE, nxt |-> v.nxt + 1, val |-> NonObject,
             items |-> Append(acc, v.val)]
     ELSE ParseFail

\* JSON.parse(jsonMatch[0]): the match starts with "[", and must be consumed whole.
JsonParse(s) ==
  LET r == ParseArray(s, 1)
  IN IF r.ok /\ r.nxt = Len(s) + 1 THEN r ELSE ParseFail

NoMatchError == Error("Error", <<"No JSON array found in response">>)
JsonSyntaxError == Error("SyntaxError", <<"Unexpected token in JSON">>)
ScaffoldFailure ==
  Error("Error", <<"Failed to generate project structure. Please try again.">>)

\* The try/catch of scaffoldProject on a response text: the entries it
\* resolves with, or the error it rejects with; logged is what the catch printed.
ScaffoldResult(text) ==
  LET m == JsonMatch(text)
  IN IF m = Null
       THEN [ok |-> FALSE, entries |-> <<>>, error |-> ScaffoldFailure,
             logged |-> <<NoMatchError>>]
     ELSE IF ~JsonParse(m).ok
       THEN [ok |-> FALSE, entries |-> <<>>, error |-> ScaffoldFailure,
             logged |-> <<JsonSyntaxError>>]
     ELSE [ok |-> TRUE, entries |-> JsonParse(m).items, error |-> ScaffoldFailure,
           logged |-> <<>>]

\* runChat up to its await: existingChat || ai.chats.create(...).
ChatInstance(existingChat, n) == IF existingChat # NoChat THEN existingChat ELSE n + 1
ChatsCreated(existingChat, n) == IF existingChat # NoChat THEN n ELSE n + 1

(* ------------------- App.tsx: asynchronous intents -------------------- *)
PendingChats(p) == Cardinality({i \in 1..Len(p) : p[i].kind = "chat"})

\* A chat call that shares its flight with another one is no longer alone.
NotSolo(p) == [i \in 1..Len(p) |-> IF p[i].kind = "chat" THEN [p[i] EXCEPT !.solo = FALSE] ELSE p[i]]

\* As handleSendMessage, but without the optimistic append of the user message.
handleSendMessageDeferred(message) ==
  /\ mounted
  /\ chatHistory' = chatHistory
  /\ isAiLoading' = TRUE
  /\ created' = ChatsCreated(chat, created)
  /\ pending' = Append(NotSolo(pending),
       Call("chat", "none", Null, chat, ChatInstance(chat, created), message,
            Len(chatHistory), PendingChats(pending) = 0))
  /\ alert' = NoAlert
  /\ console' = <<>>
  /\ last' = Last("send", "ok", NoCall, <<>>, Null)
  /\ UNCHANGED <<entries, activeId, chat, isScaffoldModalOpen, now, mounted>>

\* handleSendMessage up to the await of runChat.
handleSendMessage(message) ==
  /\ mounted
  /\ chatHistory' = Append(chatHistory, ChatMessage("user", message))
  /\ isAiLoading' = TRUE
  /\ created' = ChatsCreated(chat, created)
  /\ pending' = Append(NotSolo(pending),
       Call("chat", "none", Null, chat, ChatInstance(chat, created), message,
            Len(chatHistory), PendingChats(pending) = 0))
  /\ alert' = NoAlert
  /\ console' = <<>>
  /\ last' = Last("send", "ok", NoCall, <<>>, Null)
  /\ UNCHANGED <<entries, activeId, chat, isScaffoldModalOpen, now, mounted>>

\* The chat handle after `if (!chat) setChat(chatInstance)`, chat being the
\* value the handler closed over.
ChatAfter(call, current) == IF call.chat = NoChat THEN call.inst ELSE current

\* As handleSendMessageResolved, but appending to the transcript the handler
\* closed over: setChatHistory([...chatHistory, modelMessage]).
handleSendMessageResolvedStale(i, response) ==
  /\ pending[i].kind = "chat"
  /\ chat' = ChatAfter(pending[i], chat)
  /\ chatHistory' = Append(SubSeq(chatHistory, 1, pending[i].len0),
                           ChatMessage("model", response))
  /\ isAiLoading' = FALSE
  /\ pending' = RemoveAt(pending, i)
  /\ alert' = NoAlert
  /\ console' = <<>>
  /\ last' = Last("settleChat", "ok", pending[i], <<>>, Null)
  /\ UNCHANGED <<entries, activeId, isScaffoldModalOpen, created, now, mounted>>

\* runChat resolved: the try block after the await, then finally.
handleSendMessageResolved(i, response) ==
  /\ pending[i].kind = "chat"
  /\ chat' = ChatAfter(pending[i], chat)
  /\ chatHistory' = Append(chatHistory, ChatMessage("model", response))
  /\ isAiLoading' = FALSE
  /\ pending' = RemoveAt(pending, i)
  /\ alert' = NoAlert
  /\ console' = <<>>
  /\ last' = Last("settleChat", "ok", pending[i], <<>>, Null)
  /\ UNCHANGED <<entries, activeId, isScaffoldModalOpen, created, now, mounted>>

\* As handleSendMessageRejected, but with a catch block that only logs.
handleSendMessageRejectedSilently(i, error) ==
  /\ pending[i].kind = "chat"
  /\ isAiLoading' = FALSE
  /\ pending' = RemoveAt(pending, i)
  /\ alert' = NoAlert
  /\ console' = <<error>>
  /\ last' = Last("settleChat", "failed", pending[i], <<>>, Null)
  /\ UNCHANGED <<entries, activeId, chatHistory, chat, isScaffoldModalOpen,
                 created, now, mounted>>

\* runChat rejected: the catch block, then finally.
handleSendMessageRejected(i, error) ==
  /\ pending[i].kind = "chat"
  /\ chatHistory' = Append(chatHistory, ChatFallback)
  /\ isAiLoading' = FALSE
  /\ pending' = RemoveAt(pending, i)
  /\ alert' = NoAlert
  /\ console' = <<error>>
  /\ last' = Last("settleChat", "failed", pending[i], <<>>, Null)
  /\ UNCHANGED <<entries, activeId, chat, isScaffoldModalOpen, created, now, mounted>>

\* handleAiAction up to the await of analyzeCode / refactorCodeWithThinking.
handleAiAction(mode, code) ==
  /\ mounted
  /\ isAiLoading' = TRUE
  /\ pending' = Append(pending, Call("ai", mode, activeId, NoChat, NoChat, code, 0, FALSE))
  /\ alert' = NoAlert
  /\ console' = <<>>
  /\ last' = Last("aiAction", "ok", NoCall, <<>>, Null)
  /\ UNCHANGED <<entries, activeId, chatHistory, chat, isScaffoldModalOpen,
                 created, now, mounted>>

\* `ai-response-${Date.now()}.md`
AiResponseId(t) == <<"ai-response-">> \o NumberStr(t) \o <<".", "md">>

\* As AiResponseFile, but reading the active id of the render that is current
\* when the call settles.
AiResponseFileCurrent(call, result, t) ==
  VibeEntry(AiResponseId(t),
            <<call.mode, "-response", ".", "md">>,
            <<"## AI ", call.mode, " Result for ">> \o TemplateStr(activeId)
              \o <<"\n\n---\n\n">> \o result,
            <<"markdown">>, "file")

AiResponseFile(call, result, t) ==
  VibeEntry(AiResponseId(t),
            <<call.mode, "-response", ".", "md">>,
            <<"## AI ", call.mode, " Result for ">> \o TemplateStr(call.activeId)
              \o <<"\n\n---\n\n">> \o result,
            <<"markdown">>, "file")

\* As handleAiActionResolved, but setting the collection without the spread of
\* the previous one: setEntries(prev => [aiResponseFile]).
handleAiActionResolvedReplacing(i, result) ==
  /\ pending[i].kind = "ai"
  /\ entries' = <<AiResponseFile(pending[i], result, now)>>
  /\ activeId' = AiResponseId(now)
  /\ isAiLoading' = FALSE
  /\ pending' = RemoveAt(pending, i)
  /\ alert' = NoAlert
  /\ console' = <<>>
  /\ last' = Last("settleAi", "ok", pending[i], <<>>, Null)
  /\ UNCHANGED <<chatHistory, chat, isScaffoldModalOpen, created, now, mounted>>

\* The gateway resolved: the rest of the try block, then finally.
handleAiActionResolved(i, result) ==
  /\ pending[i].kind = "ai"
  /\ entries' = Append(entries, AiResponseFile(pending[i], result, now))
  /\ activeId' = AiResponseId(now)
  /\ isAiLoading' = FALSE
  /\ pending' = RemoveAt(pending, i)
  /\ alert' = NoAlert
  /\ console' = <<>>
  /\ last' = Last("settleAi", "ok", pending[i], <<>>, Null)
  /\ UNCHANGED <<chatHistory, chat, isScaffoldModalOpen, created, now, mounted>>

\* As handleAiActionRejected, but with a catch block that also deselects.
handleAiActionRejectedDeselecting(i, error) ==
  /\ pending[i].kind = "ai"
  /\ alert' = AiActionAlert(pending[i].mode)
  /\ console' = <<error>>
  /\ activeId' = Null
  /\ isAiLoading' = FALSE
  /\ pending' = RemoveAt(pending, i)
  /\ last' = Last("settleAi", "failed", pending[i], <<>>, Null)
  /\ UNCHANGED <<entries, chatHistory, chat, isScaffoldModalOpen,
                 created, now, mounted>>

\* The gateway rejected: the catch block, then finally.
handleAiActionRejected(i, error) ==
  /\ pending[i].kind = "ai"
  /\ alert' = AiActionAlert(pending[i].mode)
  /\ console' = <<error>>
  /\ isAiLoading' = FALSE
  /\ pending' = RemoveAt(pending, i)
  /\ last' = Last("settleAi", "failed", pending[i], <<>>, Null)
  /\ UNCHANGED <<entries, activeId, chatHistory, chat, isScaffoldModalOpen,
                 created, now, mounted>>

\* As handleScaffold, but without setIsAiLoading(true).
handleScaffoldNotBusy(prompt) ==
  /\ mounted
  /\ isAiLoading' = isAiLoading
  /\ pending' = Append(pending, Call("scaffold", "none", Null, NoChat, NoChat, prompt, 0, FALSE))
  /\ alert' = NoAlert
  /\ console' = <<>>
  /\ last' = Last("scaffold", "ok", NoCall, <<>>, Null)
  /\ UNCHANGED <<entries, activeId, chatHistory, chat, isScaffoldModalOpen,
                 created, now, mounted>>

\* handleScaffold up to the await of scaffoldProject.
handleScaffold(prompt) ==
  /\ mounted
  /\ isAiLoading' = TRUE
  /\ pending' = Append(pending, Call("scaffold", "none", Null, NoChat, NoChat, prompt, 0, FALSE))
  /\ alert' = NoAlert
  /\ console' = <<>>
  /\ last' = Last("scaffold", "ok", NoCall, <<>>, Null)
  /\ UNCHANGED <<entries, activeId, chatHistory, chat, isScaffoldModalOpen,
                 created, now, mounted>>

\* As ScaffoldActive, but activating the last entry returned.
ScaffoldActiveLast(newEntries, current) ==
  IF Len(newEntries) > 0 THEN newEntries[Len(newEntries)].id ELSE current

\* The active id after `if (newEntries.length > 0) setActiveId(newEntries[0].id)`.
ScaffoldActive(newEntries, current) ==
  IF Len(newEntries) > 0 THEN newEntries[1].id ELSE current

\* generateContent resolved with `text`: scaffoldProject parses it and resolves
\* or rejects; handleScaffold runs its try or its catch block, then finally.
handleScaffoldResponded(i, text) ==
  /\ pending[i].kind = "scaffold"
  /\ LET r == ScaffoldResult(text)
     IN IF r.ok
          THEN /\ entries' = entries \o r.entries
               /\ isScaffoldModalOpen' = FALSE
               /\ activeId' = ScaffoldActive(r.entries, activeId)
               /\ alert' = NoAlert
               /\ console' = <<>>
               /\ last' = Last("settleScaffold", "ok", pending[i], r.entries, text)
          ELSE /\ alert' = ScaffoldAlert
               /\ console' = r.logged \o <<r.error>>
               /\ last' = Last("settleScaffold", "parseFailed", pending[i], <<>>, text)
               /\ UNCHANGED <<entries, activeId, isScaffoldModalOpen>>
  /\ isAiLoading' = FALSE
  /\ pending' = RemoveAt(pending, i)
  /\ UNCHANGED <<chatHistory, chat, created, now, mounted>>

\* As handleScaffoldRejected, but without the finally block.
handleScaffoldRejectedNoFinally(i, error) ==
  /\ pending[i].kind = "scaffold"
  /\ alert' = ScaffoldAlert
  /\ console' = <<error>>
  /\ pending' = RemoveAt(pending, i)
  /\ last' = Last("settleScaffold", "failed", pending[i], <<>>, Null)
  /\ UNCHANGED <<entries, activeId, chatHistory, isAiLoading, chat,
                 isScaffoldModalOpen, created, now, mounted>>

\* generateContent rejected: scaffoldProject rejects with that error (the call
\* is outside its try); handleScaffold runs its catch block, then finally.
handleScaffoldRejected(i, error) ==
  /\ pending[i].kind = "scaffold"
  /\ alert' = ScaffoldAlert
  /\ console' = <<error>>
  /\ isAiLoading' = FALSE
  /\ pending' = RemoveAt(pending, i)
  /\ last' = Last("settleScaffold", "failed", pending[i], <<>>, Null)
  /\ UNCHANGED <<entries, activeId, chatHistory, chat, isScaffoldModalOpen,
                 created, now, mounted>>

(* ------------------------------- inputs ------------------------------- *)
\* What prompt() returns: null (cancelled), the empty string, or a name.
PromptInputs ==
  {Null, EmptyString, <<"src", "/", "a">>, <<"a", ".", "js">>}

Uploads ==
  { VibeEntry(<<"a", ".", "js">>, <<"a", ".", "js">>, <<"uploaded">>, <<"js">>, "file"),
    VibeEntry(<<"up", "/", "a", ".", "js">>, <<"a", ".", "js">>, EmptyString,
              EmptyString, "image") }

NewContents == {<<"edited">>}
Messages == {<<"hi">>}
Replies == {<<"hello">>}
Codes == {<<"x">>}
Results == {<<"summary">>}
Prompts == {<<"todo app">>}

\* What the SDK rejects with on a transport or service failure.
TransportErrors ==
  {Error("Error", <<"fetch failed">>), Error("ApiError", <<"service unavailable">>)}

Responses ==
  { <<"prose">>,
    <<"]", "[">>,
    <<"[", "]">>,
    <<"[", "prose", "]">>,
    <<"[", "[", "]", "]">>,
    <<"prose", "[", "objA", "]", "prose">>,
    <<"[", "objA", ",", "objB", "]">>,
    <<"[", "objA", "]", "prose", "[", "objB", "]">> }

Select == \E i \in 1..Len(entries) : handleSelect(entries[i].id)
ContentChange == \E newContent \in NewContents : handleContentChange(newContent)
NewFile == \E fileName \in PromptInputs : handleNewFile(fileName)
NewFolder == \E folderPath \in PromptInputs : handleNewFolder(folderPath)
FileUpload == \E file \in Uploads, confirmed \in BOOLEAN : handleFileUpload(file, confirmed)
SendMessage == \E message \in Messages : handleSendMessage(message)
AiAction == \E mode \in AIMode, code \in Codes : handleAiAction(mode, code)
Scaffold == \E prompt \in Prompts : handleScaffold(prompt)

\* The gateway settles a call in flight, in any order.
SendMessageResolved ==
  \E i \in 1..Len(pending), response \in Replies : handleSendMessageResolved(i, response)
SendMessageRejected ==
  \E i \in 1..Len(pending), error \in TransportErrors : handleSendMessageRejected(i, error)
AiActionResolved ==
  \E i \in 1..Len(pending), result \in Results : handleAiActionResolved(i, result)
AiActionRejected ==
  \E i \in 1..Len(pending), error \in TransportErrors : handleAiActionRejected(i, error)
ScaffoldResponded ==
  \E i \in 1..Len(pending), text \in Responses : handleScaffoldResponded(i, text)
ScaffoldRejected ==
  \E i \in 1..Len(pending), error \in TransportErrors : handleScaffoldRejected(i, error)

Settle ==
  \/ SendMessageResolved
  \/ SendMessageRejected
  \/ AiActionResolved
  \/ AiActionRejected
  \/ ScaffoldResponded
  \/ ScaffoldRejected

\* The bounds of a run: the sizes the next state may have.
Within(maxEntries, maxPending, maxChat, maxClock) ==
  /\ Len(entries') <= maxEntries
  /\ Len(pending') <= maxPending
  /\ Len(chatHistory') + PendingChats(pending') <= maxChat
  /\ now' <= maxClock

InSpec == Within(MaxEntries, MaxPending, MaxChat, MaxClock)

Next ==
  \/ Mount
  \/ Tick /\ InSpec
  \/ Select /\ InSpec
  \/ ContentChange /\ InSpec
  \/ NewFile /\ InSpec
  \/ NewFolder /\ InSpec
  \/ FileUpload /\ InSpec
  \/ SendMessage /\ InSpec
  \/ AiAction /\ InSpec
  \/ Scaffold /\ InSpec
  \/ SendMessageResolved /\ InSpec
  \/ SendMessageRejected /\ InSpec
  \/ AiActionResolved /\ InSpec
  \/ AiActionRejected /\ InSpec
  \/ ScaffoldResponded /\ InSpec
  \/ ScaffoldRejected /\ InSpec

Spec == Init /\ [][Next]_vars

(* Scenarios: the same handlers under a user who issues only some intents.   *)

\* The synchronous intents alone, from the initial, the empty or the unselected
\* workspace.
InFiles == Within(MaxEntriesDeep, 0, 1, 0)

NextFiles ==
  \/ Mount
  \/ Select /\ InFiles
  \/ ContentChange /\ InFiles
  \/ NewFile /\ InFiles
  \/ NewFolder /\ InFiles
  \/ FileUpload /\ InFiles

SpecFiles == (Init \/ InitEmpty \/ InitUnselected) /\ [][NextFiles]_vars

\* createFile and createFolder alone.
NextCreate ==
  \/ Mount
  \/ NewFile /\ InFiles
  \/ NewFolder /\ InFiles

SpecCreate == (Init \/ InitEmpty) /\ [][NextCreate]_vars

\* The presentation layer is handed isAiLoading and offers no AI intent while
\* it is true.
Idle == ~isAiLoading

\* Every intent that changes which entries exist or which one is active, the
\* AI intents being issued one at a time.
InWorkspace == Within(MaxEntries, MaxPending, 1, 0)

NextWorkspace ==
  \/ Mount
  \/ Select /\ InWorkspace
  \/ NewFile /\ InWorkspace
  \/ NewFolder /\ InWorkspace
  \/ FileUpload /\ InWorkspace
  \/ AiAction /\ Idle /\ InWorkspace
  \/ Scaffold /\ Idle /\ InWorkspace
  \/ AiActionResolved /\ InWorkspace
  \/ AiActionRejected /\ InWorkspace
  \/ ScaffoldResponded /\ InWorkspace
  \/ ScaffoldRejected /\ InWorkspace

SpecWorkspace == Init /\ [][NextWorkspace]_vars

\* The AI actions and scaffolds, with selection and the clock.
InAi == Within(MaxEntriesDeep, MaxPending, 1, MaxClock)

NextAi ==
  \/ Mount
  \/ Tick /\ InAi
  \/ Select /\ InAi
  \/ AiAction /\ InAi
  \/ Scaffold /\ InAi
  \/ AiActionResolved /\ InAi
  \/ AiActionRejected /\ InAi
  \/ ScaffoldResponded /\ InAi
  \/ ScaffoldRejected /\ InAi

SpecAi == Init /\ [][NextAi]_vars

\* The AI actions alone, with selection and the clock.
InAiAction == Within(MaxEntries, MaxPending, 1, MaxClock)

NextAiAction ==
  \/ Mount
  \/ Tick /\ InAiAction
  \/ Select /\ InAiAction
  \/ AiAction /\ InAiAction
  \/ AiActionResolved /\ InAiAction
  \/ AiActionRejected /\ InAiAction

SpecAiAction == Init /\ [][NextAiAction]_vars

\* The scaffolds alone, with selection.
InScaffold == Within(MaxEntriesDeep, MaxPending, 1, 0)

NextScaffold ==
  \/ Mount
  \/ Select /\ InScaffold
  \/ Scaffold /\ InScaffold
  \/ ScaffoldResponded /\ InScaffold
  \/ ScaffoldRejected /\ InScaffold

SpecScaffold == Init /\ [][NextScaffold]_vars

\* The AI-triggering intents and their settlements.
InBusy == Within(MaxEntries, MaxPending, MaxChat, 0)

NextBusy ==
  \/ Mount
  \/ SendMessage /\ InBusy
  \/ AiAction /\ InBusy
  \/ Scaffold /\ InBusy
  \/ SendMessageResolved /\ InBusy
  \/ SendMessageRejected /\ InBusy
  \/ AiActionResolved /\ InBusy
  \/ AiActionRejected /\ InBusy
  \/ ScaffoldResponded /\ InBusy
  \/ ScaffoldRejected /\ InBusy

SpecBusy == Init /\ [][NextBusy]_vars

\* The gateway answers every call: a call in flight is eventually settled.
FairSpecBusy == SpecBusy /\ WF_vars(Settle /\ InBusy)

\* The AI-triggering intents, overlapping, with the chat transcript.
InChat == Within(MaxEntries, MaxPendingDeep, MaxChatDeep, 0)

NextChat ==
  \/ Mount
  \/ SendMessage /\ InChat
  \/ AiAction /\ InChat
  \/ Scaffold /\ InChat
  \/ SendMessageResolved /\ InChat
  \/ SendMessageRejected /\ InChat
  \/ AiActionResolved /\ InChat
  \/ AiActionRejected /\ InChat
  \/ ScaffoldResponded /\ InChat
  \/ ScaffoldRejected /\ InChat

SpecChat == Init /\ [][NextChat]_vars

FairSpecChat == SpecChat /\ WF_vars(Settle /\ InChat)

\* The discipline asked of the chat panel: no send while a chat call is in flight.
ChatSettled == PendingChats(pending) = 0

\* The messages of a conversation of more than one turn.
Turns == {<<"hi">>, <<"and then?">>}

SendTurn == \E message \in Turns : handleSendMessage(message)

\* The chat sends issued one after the other's settlement, with AI actions
\* that may overlap them.
NextChatSeq ==
  \/ Mount
  \/ SendTurn /\ ChatSettled /\ InChat
  \/ AiAction /\ InChat
  \/ SendMessageResolved /\ InChat
  \/ SendMessageRejected /\ InChat
  \/ AiActionResolved /\ InChat
  \/ AiActionRejected /\ InChat

SpecChatSeq == Init /\ [][NextChatSeq]_vars

\* Uploads into a workspace that scaffolds fill, from the initial or the empty
\* workspace.
NextUpload ==
  \/ Mount
  \/ Select /\ InScaffold
  \/ FileUpload /\ InScaffold
  \/ Scaffold /\ InScaffold
  \/ ScaffoldResponded /\ InScaffold
  \/ ScaffoldRejected /\ InScaffold

SpecUpload == (Init \/ InitEmpty) /\ [][NextUpload]_vars

\* The handlers are suspended at their await: a gateway call is in flight.
InFlight == pending # <<>>

\* One AI action at a time, and the user selecting, creating and uploading
\* while its gateway call is in flight.
InFlightBounds == Within(MaxEntriesDeep, MaxPending, 1, 0)

NextFlight ==
  \/ Mount
  \/ Select /\ InFlight /\ InFlightBounds
  \/ NewFile /\ InFlight /\ InFlightBounds
  \/ NewFolder /\ InFlight /\ InFlightBounds
  \/ FileUpload /\ InFlight /\ InFlightBounds
  \/ AiAction /\ Idle /\ InFlightBounds
  \/ AiActionResolved /\ InFlightBounds

SpecFlight == Init /\ [][NextFlight]_vars

\* One AI action or scaffold at a time, and the user editing, creating and
\* uploading while its gateway call is in flight.
NextFlightEdit ==
  \/ Mount
  \/ ContentChange /\ InFlight /\ InFlightBounds
  \/ NewFile /\ InFlight /\ InFlightBounds
  \/ NewFolder /\ InFlight /\ InFlightBounds
  \/ FileUpload /\ InFlight /\ InFlightBounds
  \/ AiAction /\ Idle /\ InFlightBounds
  \/ Scaffold /\ Idle /\ InFlightBounds
  \/ AiActionResolved /\ InFlightBounds
  \/ ScaffoldResponded /\ InFlightBounds

SpecFlightEdit == Init /\ [][NextFlightEdit]_vars

(* ------------------------------- claims ------------------------------- *)
UniqueIds(es) == \A i, j \in 1..Len(es) : i # j => es[i].id # es[j].id

HasId(es, id) == \E i \in 1..Len(es) : es[i].id = id

\* C1: over createFile and createFolder calls no two entries share an id, and
\* a call that duplicates an existing entry changes nothing and reports an error.
C1_CreateKeepsIdsUnique ==
  /\ UniqueIds(entries)
  /\ last.out = "exists" => alert \in {FileExistsAlert, FolderExistsAlert}

\* C2: in every reachable state of the workspace (createFile, createFolder,
\* uploadFile, runAiAction and runScaffold in any order) the ids of the entries
\* are pairwise distinct.
C2_IdsPairwiseDistinct ==
  Cardinality({entries[i].id : i \in 1..Len(entries)}) = Len(entries)

\* C3: the active id is null or the id of an entry of the collection, selectEntry
\* being called only with ids of the collection.
C3_ActiveIdValid == activeId = Null \/ HasId(entries, activeId)

\* C3 witness: an upload overwrote an entry by one with another id, which is active.
C3_Witness ==
  /\ last.op = "upload"
  /\ last.out = "overwritten"
  /\ activeId = <<"up", "/", "a", ".", "js">>
  /\ ~HasId(entries, <<"a", ".", "js">>)

AiInvocations == {"send", "aiAction", "scaffold"}
AiSettlements == {"settleChat", "settleAi", "settleScaffold"}

\* C5: every AI-triggering operation sets busy when invoked and clears it when
\* its gateway call settles, with success or failure; the gateway answering
\* every call, busy is always eventually followed by not busy.
C5_BusyAlwaysCleared ==
  /\ [](last.op \in AiInvocations => isAiLoading)
  /\ [](last.op \in AiSettlements => ~isAiLoading)
  /\ (isAiLoading ~> ~isAiLoading)

\* C5 witness: a scaffold call failed and busy is cleared.
C5_Witness ==
  /\ last.op = "settleScaffold"
  /\ last.out = "failed"
  /\ ~isAiLoading

\* C6: a successful runAiAction appends exactly one new markdown entry whose id
\* differs from the id of every other entry, also from that of the entry of
\* another runAiAction that completed in the same clock tick.
C6_AiEntryIdFresh ==
  (last.op = "settleAi" /\ last.out = "ok") =>
    /\ entries[Len(entries)].language = <<"markdown">>
    /\ \A i \in 1..(Len(entries) - 1) : entries[i].id # entries[Len(entries)].id

\* C7: when the gateway call of runAiAction fails, the entries, the active id,
\* the transcript and the session handle are as they were before the failure
\* was delivered; an error is shown and busy is cleared.
C7_AiFailureChangesNothing ==
  [][(last'.op = "settleAi" /\ last'.out = "failed") =>
       /\ entries' = entries
       /\ activeId' = activeId
       /\ chatHistory' = chatHistory
       /\ chat' = chat
       /\ alert' = AiActionAlert(last'.call.mode)
       /\ ~isAiLoading']_vars

\* C7 witness: a refactor failed after an earlier AI action had added its entry.
C7_Witness ==
  /\ last.op = "settleAi"
  /\ last.out = "failed"
  /\ last.call.mode = REFACTOR
  /\ alert = AiActionAlert(REFACTOR)
  /\ Len(entries) = Len(initialEntries) + 1
  /\ ~isAiLoading

Caught == console[Len(console)]

\* The response texts with no "[" followed later by a "]".
NoArrayLike(text) ==
  ~\E i, j \in 1..Len(text) : i < j /\ text[i] = "[" /\ text[j] = "]"

\* The response texts whose array-like substring is no JSON.
Unparsable ==
  { <<"[", "prose", "]">>,
    <<"[", "objA", "]", "prose", "[", "objB", "]">> }

C10_EditTouchesActiveContentOnly ==
  [][last'.op = "edit" =>
       /\ activeId' = activeId
       /\ Len(entries') = Len(entries)
       /\ activeId = Null => entries' = entries
       /\ \E c \in NewContents : \A i \in 1..Len(entries) :
            IF activeId # Null /\ entries[i].id = activeId
              THEN /\ entries'[i].content = c
                   /\ entries'[i].id = entries[i].id
                   /\ entries'[i].name = entries[i].name
                   /\ entries'[i].language = entries[i].language
                   /\ entries'[i].type = entries[i].type
              ELSE entries'[i] = entries[i]]_vars

\* C10 witness: an edit with nothing selected left the initial entries as they were.
C10_Witness ==
  /\ last.op = "edit"
  /\ last.out = "noop"
  /\ activeId = Null
  /\ entries = initialEntries

IsPrefix(s, t) == Len(s) <= Len(t) /\ SubSeq(t, 1, Len(s)) = s

\* C11: the transcript is append-only: in every step the transcript before the
\* step is a prefix of the transcript after it, also when a chat call fails and
\* in the steps of the other operations.
C11_TranscriptAppendOnly == [][IsPrefix(chatHistory, chatHistory')]_vars

\* C11 witness: a chat call failed while another was in flight, and its
\* fallback followed the two user messages and the greeting.
C11_Witness ==
  /\ last.op = "settleChat"
  /\ last.out = "failed"
  /\ ~last.call.solo
  /\ chatHistory = <<Greeting, ChatMessage("user", <<"hi">>),
                     ChatMessage("user", <<"hi">>), ChatFallback>>

\* C12: over chat sends each issued after the previous one settled, the gateway
\* initialises a session at most once, a stored handle is never replaced, and
\* every call issued while a handle is stored is made with that handle.
C12_SessionCreatedOnce ==
  [][/\ created' <= 1
     /\ chat # NoChat => chat' = chat
     /\ (last'.op = "send" /\ chat # NoChat) =>
          /\ pending'[Len(pending')].chat = chat
          /\ pending'[Len(pending')].inst = chat]_vars

\* The chat calls in flight.
ChatsInFlight == {i \in 1..Len(pending) : pending[i].kind = "chat"}

\* C13: no send being issued before the previous one settled, the transcript
\* after the greeting alternates user message, then the reply or the fallback
\* made for that message, with at most one trailing unanswered user message,
\* which is there exactly while a chat call is in flight.
C13_TranscriptAlternates ==
  mounted =>
    /\ chatHistory[1] = Greeting
    /\ \A k \in 2..Len(chatHistory) :
         chatHistory[k].role = (IF k % 2 = 0 THEN "user" ELSE "model")
    /\ Cardinality(ChatsInFlight) <= 1
    /\ (Len(chatHistory) % 2 = 0) <=> (ChatsInFlight # {})
    /\ \A i \in ChatsInFlight :
         /\ pending[i].len0 + 1 = Len(chatHistory)
         /\ chatHistory[Len(chatHistory)] = ChatMessage("user", pending[i].message)
    /\ last.op = "settleChat" =>
         /\ last.call.len0 + 2 = Len(chatHistory)
         /\ chatHistory[Len(chatHistory) - 1] = ChatMessage("user", last.call.message)
         /\ last.out = "ok" => chatHistory[Len(chatHistory)].content \in Replies
         /\ last.out = "failed" => chatHistory[Len(chatHistory)] = ChatFallback

\* C13 witness: two turns, the first answered by the fallback and the second
\* by the model.
C13_Witness ==
  /\ last.op = "settleChat"
  /\ chatHistory = <<Greeting, ChatMessage("user", <<"hi">>), ChatFallback,
                     ChatMessage("user", <<"and then?">>),
                     ChatMessage("model", <<"hello">>)>>

\* C14: uploadFile appends the entry and activates it when no entry has its
\* name; when one has and the user confirms, the entry with that name is
\* replaced in place, the length and every other entry staying as they were,
\* and the uploaded entry becomes active; when the user declines, the
\* collection and the active id are unchanged.
C14_UploadReplacesOneInPlace ==
  [][last'.op = "upload" =>
       LET file == last'.ret[1]
       IN /\ last'.out = "appended" =>
               /\ ~UploadExists(entries, file)
               /\ entries' = Append(entries, file)
               /\ activeId' = file.id
          /\ last'.out = "overwritten" =>
               /\ UploadExists(entries, file)
               /\ Len(entries') = Len(entries)
               /\ \E k \in 1..Len(entries) :
                    /\ entries[k].name = file.name
                    /\ entries'[k] = file
                    /\ \A i \in 1..Len(entries) : i # k => entries'[i] = entries[i]
               /\ activeId' = file.id
          /\ last'.out = "declined" =>
               /\ UploadExists(entries, file)
               /\ entries' = entries
               /\ activeId' = activeId]_vars

\* What follows the last "." of a name that has one.
IsAfterLastDot(ext, name) ==
  \E k \in 1..Len(name) :
    /\ name[k] = "."
    /\ \A j \in (k + 1)..Len(name) : name[j] # "."
    /\ ext = SubSeq(name, k + 1, Len(name))

\* C15: a successful createFile(name) appends a file entry whose language is
\* what follows the last "." of name, or "text" when name has no ".", and
\* makes that entry active.
C15_LanguageFromExtension ==
  [][(last'.op = "newFile" /\ last'.out = "ok") =>
       LET e == entries'[Len(entries')]
       IN /\ entries' = Append(entries, e)
          /\ e.type = "file"
          /\ activeId' = e.id
          /\ IF \E k \in 1..Len(e.name) : e.name[k] = "."
               THEN IsAfterLastDot(e.language, e.name)
               ELSE e.language = <<"text">>]_vars

\* C16: no entry is ever deleted: in every step each id of the collection is
\* still an id of the collection afterwards, and the length does not decrease.
C16_NoIdEverRemoved ==
  [][/\ Len(entries') >= Len(entries)
     /\ \A i \in 1..Len(entries) : HasId(entries', entries[i].id)]_vars

\* C17: uploadFile(e) on the empty collection followed by selectEntry(e.id)
\* gives a state whose active entry equals e in all fields.
C17_UploadSelectRoundTrip ==
  [][(/\ last.op = "upload"
      /\ last.out = "appended"
      /\ entries = last.ret
      /\ last'.op = "select"
      /\ activeId' = last.ret[1].id) =>
       activeEntry(entries', activeId') = last.ret[1]]_vars

\* C17 witness: the image up/a.js, uploaded into the empty workspace and
\* then selected, is the active entry.
C17_Witness ==
  /\ last.op = "select"
  /\ Len(entries) = 1
  /\ entries[1] \in Uploads
  /\ entries[1].type = "image"
  /\ activeId = <<"up", "/", "a", ".", "js">>
  /\ activeEntry(entries, activeId) = entries[1]

\* The heading handleAiAction puts before the result, for the active id `aid`.
Heading(mode, aid) == <<"## AI ", mode, " Result for ">> \o aid \o <<"\n\n---\n\n">>

\* C18: the heading of the entry a successful runAiAction produces names the id
\* that was active when runAiAction was invoked, whatever selectEntry,
\* createFile, createFolder or uploadFile made active during the flight, and
\* on settlement the new entry is the active one.
C18_HeadingNamesActiveAtInvocation ==
  [][/\ last'.op = "aiAction" => pending'[Len(pending')].activeId = activeId
     /\ \A j \in 1..Len(pending') :
          \/ pending'[j] \in {pending[i] : i \in 1..Len(pending)}
          \/ last'.op = "aiAction" /\ j = Len(pending')
     /\ (last'.op = "settleAi" /\ last'.out = "ok") =>
          /\ last'.call \in {pending[i] : i \in 1..Len(pending)}
          /\ \E result \in Results :
               entries'[Len(entries')].content =
                 Heading(last'.call.mode, last'.call.activeId) \o result
          /\ activeId' = entries'[Len(entries')].id]_vars

\* C18 witness: the action was invoked on welcome.js, a.js was created (and so
\* made active) during the flight, and the result names welcome.js and is active.
C18_Witness ==
  /\ last.op = "settleAi"
  /\ last.out = "ok"
  /\ Len(entries) = Len(initialEntries) + 2
  /\ entries[Len(entries) - 1].id = <<"a", ".", "js">>
  /\ entries[Len(entries)].content =
       Heading(ANALYZE, <<"welcome", ".", "js">>) \o <<"summary">>
  /\ activeId = entries[Len(entries)].id

\* C19 as claimed: in every interleaving of AI-triggering intents and
\* settlements, also with intents issued while another gateway call is in
\* flight, busy is true in every state in which a gateway call is in flight.
C19_BusyWhileInFlight == pending # <<>> => isAiLoading

\* C19 as amended: every AI-triggering intent sets busy, and busy is false with
\* a gateway call in flight only from the settlement of one of two or more
\* calls that were in flight together on; as long as no intent is issued while
\* another call is in flight, busy is true whenever a call is in flight.
C19_BusyUnlessOverlapSettled ==
  [][/\ last'.op \in AiInvocations => isAiLoading'
     /\ (pending' # <<>> /\ ~isAiLoading') =>
          \/ last'.op \in AiSettlements /\ Len(pending) >= 2
          \/ pending # <<>> /\ ~isAiLoading /\ last'.op \notin AiInvocations]_vars

\* C19 witness: after a chat turn has settled, a scaffold call is in flight
\* alone and busy is true.
C19_Witness ==
  /\ last.op = "scaffold"
  /\ Len(chatHistory) = 3
  /\ Len(pending) = 1
  /\ pending[1].kind = "scaffold"
  /\ isAiLoading

\* C20: what was changed in the workspace while a runAiAction or runScaffold
\* call was in flight is not lost when the call settles with success: the
\* collection after the settlement is the collection right before it, followed
\* by the new entry or entries.
C20_SettlementKeepsMutations ==
  [][/\ (last'.op = "settleAi" /\ last'.out = "ok") =>
          /\ Len(entries') = Len(entries) + 1
          /\ SubSeq(entries', 1, Len(entries)) = entries
          /\ entries'[Len(entries')].language = <<"markdown">>
     /\ (last'.op = "settleScaffold" /\ last'.out = "ok") =>
          entries' = entries \o last'.ret]_vars

\* C20 witness: welcome.js was edited and a.js created during the flight of an
\* AI action, and both are in the collection before the result.
C20_Witness ==
  /\ last.op = "settleAi"
  /\ last.out = "ok"
  /\ Len(entries) = Len(initialEntries) + 2
  /\ entries[1].id = <<"welcome", ".", "js">>
  /\ entries[1].content = <<"edited">>
  /\ entries[4].id = <<"a", ".", "js">>
  /\ entries[5].language = <<"markdown">>

====
